---- MODULE Spec2Model ----
(***************************************************************************)
(* The QR mission loop of src/QR/qr.py: the centroid tracker               *)
(* (active_trackers, processed_ids, next_object_id) and the mission state  *)
(* machine (current_state, phase_1_votes, phase_1_decision,                *)
(* phase_2_decision) that consumes it, one tick per camera frame.          *)
(*                                                                         *)
(* A tick is modelled in the two steps the loop body runs in order:        *)
(*   DetectAndTrack lines 77-166  read a frame, detect, build current_*,   *)
(*                                then match / age / register              *)
(*   StateStep      lines 169-308 the mission state machine, the drawing   *)
(*                                and the poll of the 'q' key              *)
(* pc is the position of the loop between them. A tick that does not run   *)
(* to its end leaves the loop body early: to the backoff of a failed read  *)
(* (line 80) or to the handler of an exception (lines 310-315).            *)
(*                                                                         *)
(* Representation.                                                         *)
(*  - A tracker ID f"QR-{n}" is the pair <<"QR", n>>.                      *)
(*  - active_trackers is a Python dict: the model keeps it as the sequence *)
(*    of its entries in insertion order (the order .items() iterates in).  *)
(*  - decoded_info is the detector's result: the sequence of detections,   *)
(*    each the payload decoded_info[i] with the centroid of points[i].     *)
(*  - A centroid is a pair <<cx, cy>> of integers. The corner points of a  *)
(*    detection travel with its centroid in every assignment of the loop   *)
(*    and are read only by the drawing code; they are not modelled.        *)
(*  - dist.cdist gives sqrt(dx^2 + dy^2); for integer centroids comparing  *)
(*    two distances, or a distance with MAX_DISTANCE, is comparing the     *)
(*    squares, which is what the model does.                               *)
(***************************************************************************)
EXTENDS Integers, Sequences, FiniteSets, TLC

VARIABLES
    pc,                 \* position of the main loop inside the tick
    stop_requested,     \* a 'q' key press waits for cv2.waitKey (line 306)
    decoded_info,       \* this tick's raw detections    (line 87)
    current_centers,    \* this tick's usable centroids   (line 90)
    current_data,       \* this tick's usable payloads    (line 91)
    active_trackers,    \* tracked objects, dict order    (line 60)
    processed_ids,      \* IDs consumed by the state machine (line 61)
    next_object_id,     \* ID counter                     (line 62)
    current_state,      \* mission state                  (line 67)
    phase_1_votes,      \* vote ledger                    (line 68)
    phase_1_decision,   \* None or the phase-1 decision   (line 69)
    phase_2_decision    \* None or the phase-2 decision   (line 70)

vars == <<pc, stop_requested, decoded_info, current_centers, current_data, active_trackers, processed_ids,
          next_object_id, current_state, phase_1_votes, phase_1_decision,
          phase_2_decision>>

(***************************************************************************)
(* Program constants                                                       *)
(***************************************************************************)
VALID_PHASE_1_COMMANDS == <<"go left", "go right", "go straight">>
VALID_PHASE_2_COMMANDS == <<"drop left", "drop right">>
MAX_DISTANCE == 70
VOTE_TARGET == 5
STATE_PHASE_1_SCANNING == "STATE_PHASE_1_SCANNING"
STATE_PHASE_2_SCANNING == "STATE_PHASE_2_SCANNING"
STATE_MISSION_COMPLETE == "STATE_MISSION_COMPLETE"
None == "<None>"

(***************************************************************************)
(* Bounds of the model                                                     *)
(***************************************************************************)
\* The program sets MAX_FRAMES_UNSEEN = 20 (line 64); the model runs the same
\* comparison with a smaller threshold.
MAX_FRAMES_UNSEEN == 2
\* Tracked objects alive at once, at most: frames that would exceed it are not
\* offered, so this also bounds the detections of one frame (MaxObs).
MaxTrackers == 2
MaxObs == MaxTrackers
\* Tracked objects alive at once in the specification of the greedy matching,
\* where an object that goes unmatched lives on beside the objects of a full
\* frame.
MaxCrowd == MaxTrackers + 1
\* Largest n of an ID QR-n the model lets the counter hand out.
MaxId == 6
\* Largest n of an ID QR-n handed out after the phase transition has reset
\* the counter.
MaxIdAfterReset == 2
\* Largest n of an ID QR-n in the specification that exercises the tracker.
MaxTrackId == 3
\* Largest n of an ID QR-n in the specification of markers that change their
\* payload.
MaxConsumeId == 2

\* Centroids the detector reports. <<42,56>> is at distance exactly 70
\* (= MAX_DISTANCE) from <<0,0>> and from <<84,0>>, and 71 from <<42,127>>;
\* every other pair is farther apart than MAX_DISTANCE.
TrackCenters == {<<0, 0>>, <<42, 56>>, <<42, 127>>, <<84, 0>>}
MissionCenters == {<<0, 0>>, <<42, 127>>}
\* Payloads the detector decodes; "" is a detection that could not be decoded.
TrackPayloads == {"", "go left"}
MissionPayloads == {"", "go left", "drop left"}
EndgamePayloads == {"go left", "drop left", "drop right"}
FaultPayloads == {"", "go left"}
\* Three markers in a row: the middle one is 40 from the first and 50 from the
\* last, the outer two are farther apart than MAX_DISTANCE.
CrowdCenters == {<<0, 0>>, <<40, 0>>, <<90, 0>>}
CrowdPayloads == {"go left"}
ConsumePayloads == {"go left", "go right", "drop left"}

(***************************************************************************)
(* Helpers                                                                 *)
(***************************************************************************)
Range(s) == {s[i] : i \in 1..Len(s)}

QRId(n) == <<"QR", n>>

Dist2(a, b) == (a[1] - b[1]) * (a[1] - b[1]) + (a[2] - b[2]) * (a[2] - b[2])

\* (mutation of BeyondGate: the gate is never applied)
BeyondGateNever(a, b) == FALSE

\* (mutation of BeyondGate: >= for >)
BeyondGateAtGate(a, b) == Dist2(a, b) >= MAX_DISTANCE * MAX_DISTANCE

\* D[row, col] > MAX_DISTANCE
BeyondGate(a, b) == Dist2(a, b) > MAX_DISTANCE * MAX_DISTANCE

TrackerIds(T) == {T[i].id : i \in 1..Len(T)}

\* The entries of s that satisfy keep, in order.
RECURSIVE SelectIdx(_, _, _)
SelectIdx(s, keep, i) ==
    IF i > Len(s) THEN <<>>
    ELSE (IF i \in keep THEN <<s[i]>> ELSE <<>>) \o SelectIdx(s, keep, i + 1)

\* d[key] = value on a dict kept in insertion order: an existing key keeps
\* its place, a new key goes last.
DictSet(T, rec) ==
    IF \E i \in 1..Len(T) : T[i].id = rec.id
    THEN [i \in 1..Len(T) |-> IF T[i].id = rec.id THEN rec ELSE T[i]]
    ELSE Append(T, rec)

\* del d[key] for every key in ids.
DictDel(T, ids) == SelectIdx(T, {i \in 1..Len(T) : T[i].id \notin ids}, 1)

\* The members of a set of integers in ascending order.
RECURSIVE SortedSeq(_)
SortedSeq(S) ==
    IF S = {} THEN <<>>
    ELSE LET m == CHOOSE x \in S : \A y \in S : x <= y
         IN  <<m>> \o SortedSeq(S \ {m})

\* The orders n rows can be visited in, for every n the model reaches.
RowPermutations ==
    [n \in 0..MaxCrowd |->
        {o \in [1..n -> 1..n] : \A i, j \in 1..n : i # j => o[i] # o[j]}]

(***************************************************************************)
(* Tracker update, lines 106-166                                           *)
(***************************************************************************)
\* (mutation of NextId: the counter is not advanced)
NextIdStuck(n) == n

\* next_object_id += 1
NextId(n) == n + 1

\* (mutation of Expired: >= for >)
ExpiredEarly(unseen) == unseen >= MAX_FRAMES_UNSEEN

\* unseen > MAX_FRAMES_UNSEEN
Expired(unseen) == unseen > MAX_FRAMES_UNSEEN

NewTracker(n, center, data) ==
    [id |-> QRId(n), center |-> center, data |-> data, unseen |-> 0]

\* for col in cols: active_trackers[f"QR-{next_object_id}"] = (..., 0);
\* next_object_id += 1.   r = [trackers, next]
RECURSIVE Register(_, _, _, _, _)
Register(r, cols, k, C, Dt) ==
    IF k > Len(cols) THEN r
    ELSE Register([trackers |-> DictSet(r.trackers,
                                        NewTracker(r.next, C[cols[k]], Dt[cols[k]])),
                   next     |-> NextId(r.next)],
                  cols, k + 1, C, Dt)

\* D.min(axis=1), squared: the distance of each tracker (row) to its nearest
\* observation.
RowMin(T, C) ==
    [row \in 1..Len(T) |->
        CHOOSE d \in {Dist2(T[row].center, C[c]) : c \in 1..Len(C)} :
            \A c \in 1..Len(C) : d <= Dist2(T[row].center, C[c])]

\* D.argmin(axis=1): for each row the first column that attains its minimum.
ArgMin(T, C) ==
    LET mins == RowMin(T, C)
    IN  [row \in 1..Len(T) |->
            CHOOSE c \in 1..Len(C) :
                /\ Dist2(T[row].center, C[c]) = mins[row]
                /\ \A c2 \in 1..(c - 1) : Dist2(T[row].center, C[c2]) # mins[row]]

\* (mutation of RowOrders: the rows are visited in dict order, unsorted)
RowOrdersUnsorted(T, C) == {[i \in 1..Len(T) |-> i]}

\* D.min(axis=1).argsort(): the rows in ascending order of their minimum.
\* argsort's default sort is not stable, so rows with equal minima may come
\* in either order: every ascending order is a possible result.
RowOrders(T, C) ==
    LET mins == RowMin(T, C)
    IN  {o \in RowPermutations[Len(T)] :
            \A i \in 1..(Len(T) - 1) : mins[o[i]] <= mins[o[i + 1]]}

\* (mutation of Greedy: a row whose nearest column is used is offered the
\* nearest column that is still unused)
RECURSIVE GreedyTakesNextNearest(_, _, _, _, _, _)
GreedyTakesNextNearest(T, C, rows, argmin, k, M) ==
    IF k > Len(rows) THEN M
    ELSE LET row  == rows[k]
             free == (1..Len(C)) \ {m[2] : m \in M}
             col  == IF argmin[row] \in free \/ free = {} THEN argmin[row]
                     ELSE CHOOSE c \in free : \A c2 \in free :
                            Dist2(T[row].center, C[c]) <= Dist2(T[row].center, C[c2])
         IN  IF \/ row \in {m[1] : m \in M}
                \/ col \in {m[2] : m \in M}
             THEN GreedyTakesNextNearest(T, C, rows, argmin, k + 1, M)
             ELSE IF BeyondGate(T[row].center, C[col])
             THEN GreedyTakesNextNearest(T, C, rows, argmin, k + 1, M)
             ELSE GreedyTakesNextNearest(T, C, rows, argmin, k + 1,
                                         M \cup {<<row, col>>})

\* The greedy loop of lines 128-137 over zip(rows, cols), cols = argmin[rows];
\* M is the set of committed <<row, col>> pairs (used_rows and used_cols are
\* its projections).
RECURSIVE Greedy(_, _, _, _, _, _)
Greedy(T, C, rows, argmin, k, M) ==
    IF k > Len(rows) THEN M
    ELSE LET row == rows[k]
             col == argmin[row]
         IN  IF \/ row \in {m[1] : m \in M}
                \/ col \in {m[2] : m \in M}
             THEN Greedy(T, C, rows, argmin, k + 1, M)
             ELSE IF BeyondGate(T[row].center, C[col])
             THEN Greedy(T, C, rows, argmin, k + 1, M)
             ELSE Greedy(T, C, rows, argmin, k + 1, M \cup {<<row, col>>})

\* The committed pairs of one tracker update.
Matching(T, C, rows) == Greedy(T, C, rows, ArgMin(T, C), 1, {})

\* (mutation of Age: the increment is lost)
AgeStuck(rec) == rec

\* Lines 142-149 and 157-162 for one tracker that got no observation:
\* unseen += 1, kept unless it is now beyond the threshold.
Age(rec) == [rec EXCEPT !.unseen = @ + 1]

\* Lines 120-154 and 164-166: trackers and observations both present.
MatchUpdate(T, C, Dt, nid, rows) ==
    LET M          == Matching(T, C, rows)
        used_rows  == {m[1] : m \in M}
        used_cols  == {m[2] : m \in M}
        ColOf(row) == CHOOSE c \in 1..Len(C) : <<row, c>> \in M
        unused_rows == (1..Len(T)) \ used_rows
        unused_cols == (1..Len(C)) \ used_cols
        disappeared == {T[row].id : row \in {r \in unused_rows :
                                             Expired(Age(T[r]).unseen)}}
        T1 == [row \in 1..Len(T) |->
                 IF row \in used_rows
                 THEN [id |-> T[row].id, center |-> C[ColOf(row)],
                       data |-> Dt[ColOf(row)], unseen |-> 0]
                 ELSE IF T[row].id \in disappeared THEN T[row]
                 ELSE Age(T[row])]
        \* a set of small ints iterates in ascending order
        reg == Register([trackers |-> T1, next |-> nid],
                        SortedSeq(unused_cols), 1, C, Dt)
    IN  [trackers |-> DictDel(reg.trackers, disappeared), next |-> reg.next]

\* (mutation of NoDetections: the disappeared trackers are not deleted)
NoDetectionsKeepsExpired(T, nid) ==
    [trackers |-> [i \in 1..Len(T) |-> [T[i] EXCEPT !.unseen = @ + 1]],
     next |-> nid]

\* Lines 155-166: trackers present, no observation.
NoDetections(T, nid) ==
    LET disappeared == {T[i].id : i \in {r \in 1..Len(T) :
                                         Expired(Age(T[r]).unseen)}}
        T1 == [i \in 1..Len(T) |->
                 IF T[i].id \in disappeared THEN T[i] ELSE Age(T[i])]
    IN  [trackers |-> DictDel(T1, disappeared), next |-> nid]

\* The orders the greedy loop may visit the rows in (one, <<>>, when the
\* matching branch is not taken).
Orders(T, C) == IF Len(T) > 0 /\ Len(C) > 0 THEN RowOrders(T, C) ELSE {<<>>}

\* The whole tracker update, lines 106-166.
UpdateTrackers(T, C, Dt, nid, rows) ==
    IF Len(T) = 0
    THEN Register([trackers |-> T, next |-> nid],
                  [i \in 1..Len(C) |-> i], 1, C, Dt)
    ELSE IF Len(C) > 0
    THEN MatchUpdate(T, C, Dt, nid, rows)
    ELSE NoDetections(T, nid)

(***************************************************************************)
(* Mission state machine, lines 169-269                                    *)
(***************************************************************************)
\* (mutation of ObjectsToProcess: the test of processed_ids is missing)
ObjectsToProcessAll(T, P) == T

\* Lines 170-173: (tracker_id, data) of the trackers not yet processed,
\* in dict order.
ObjectsToProcess(T, P) ==
    SelectIdx(T, {i \in 1..Len(T) : T[i].id \notin P}, 1)

\* (mutation of VoteLoop: an ignored object is marked processed as well)
RECURSIVE VoteLoopMarksIgnored(_, _, _)
VoteLoopMarksIgnored(r, objs, k) ==
    IF k > Len(objs) THEN r
    ELSE IF objs[k].data \in Range(VALID_PHASE_1_COMMANDS)
    THEN VoteLoopMarksIgnored([processed |-> r.processed \cup {objs[k].id},
                               votes     |-> Append(r.votes, objs[k].data)],
                              objs, k + 1)
    ELSE VoteLoopMarksIgnored([processed |-> r.processed \cup {objs[k].id},
                               votes     |-> r.votes],
                              objs, k + 1)

\* (mutation of VoteLoop: a vote is put at the head of the ledger)
RECURSIVE VoteLoopNewestFirst(_, _, _)
VoteLoopNewestFirst(r, objs, k) ==
    IF k > Len(objs) THEN r
    ELSE IF objs[k].data \in Range(VALID_PHASE_1_COMMANDS)
    THEN VoteLoopNewestFirst([processed |-> r.processed \cup {objs[k].id},
                              votes     |-> <<objs[k].data>> \o r.votes],
                             objs, k + 1)
    ELSE VoteLoopNewestFirst(r, objs, k + 1)

\* Lines 177-192: the phase-1 vote loop.  r = [processed, votes]
RECURSIVE VoteLoop(_, _, _)
VoteLoop(r, objs, k) ==
    IF k > Len(objs) THEN r
    ELSE IF objs[k].data \in Range(VALID_PHASE_1_COMMANDS)
    THEN VoteLoop([processed |-> r.processed \cup {objs[k].id},
                   votes     |-> Append(r.votes, objs[k].data)],
                  objs, k + 1)
    ELSE VoteLoop(r, objs, k + 1)

\* len(phase_1_votes) == 5
PhaseOneComplete(votes) == Len(votes) = VOTE_TARGET

\* Counter(votes): the distinct votes in order of first occurrence ...
RECURSIVE CounterKeys(_, _)
CounterKeys(votes, k) ==
    IF k > Len(votes) THEN <<>>
    ELSE (IF \E j \in 1..(k - 1) : votes[j] = votes[k]
          THEN <<>> ELSE <<votes[k]>>) \o CounterKeys(votes, k + 1)

\* ... each with its count.
CountOf(votes, v) == Cardinality({i \in 1..Len(votes) : votes[i] = v})

\* (mutation of MaxByCount: >= for >, the last of the tied items wins)
RECURSIVE MaxByCountLast(_, _, _, _)
MaxByCountLast(votes, keys, k, best) ==
    IF k > Len(keys) THEN best
    ELSE IF CountOf(votes, keys[k]) >= CountOf(votes, best)
    THEN MaxByCountLast(votes, keys, k + 1, keys[k])
    ELSE MaxByCountLast(votes, keys, k + 1, best)

\* max(items, key=count), which is what most_common(1) runs: the first item
\* whose count no later item exceeds.
RECURSIVE MaxByCount(_, _, _, _)
MaxByCount(votes, keys, k, best) ==
    IF k > Len(keys) THEN best
    ELSE IF CountOf(votes, keys[k]) > CountOf(votes, best)
    THEN MaxByCount(votes, keys, k + 1, keys[k])
    ELSE MaxByCount(votes, keys, k + 1, best)

\* Counter(phase_1_votes).most_common(1)[0][0]
MostCommon(votes) ==
    LET keys == CounterKeys(votes, 1)
    IN  MaxByCount(votes, keys, 2, keys[1])

(***************************************************************************)
(* The steps of a tick                                                     *)
(***************************************************************************)
\* What the detector may return for one frame: up to MaxObs detections with
\* payloads in PS at pairwise distinct centroids in CS.
RawFrames(CS, PS) ==
    UNION {{f \in [1..n -> [center : CS, data : PS]] :
               \A i, j \in 1..n : i # j => f[i].center # f[j].center} :
           n \in 0..MaxObs}

\* (mutation of Usable: the test of decoded_info[i] is missing)
UsableAll(raw) == raw

\* Lines 94-104: the detections with a non-empty payload, in order.
Usable(raw) == SelectIdx(raw, {i \in 1..Len(raw) : raw[i].data # ""}, 1)

\* The frames the camera may show, per specification. In these every
\* detection has decoded: the undecodable ones are already left out.
MissionFrames == {Usable(raw) : raw \in RawFrames(MissionCenters, MissionPayloads)}
EndgameFrames == {Usable(raw) : raw \in RawFrames(MissionCenters, EndgamePayloads)}
VoteFrames ==
    {<<>>} \cup {<<[center |-> c, data |-> d]>> :
                    c \in MissionCenters, d \in Range(VALID_PHASE_1_COMMANDS)}
TrackFrames == {Usable(raw) : raw \in RawFrames(TrackCenters, TrackPayloads)}
ConsumeFrames == RawFrames(MissionCenters, ConsumePayloads)
\* The frames as the detector returns them, undecodable detections included.
FaultFrames == RawFrames(MissionCenters, FaultPayloads)
CrowdFrames == RawFrames(CrowdCenters, CrowdPayloads)

\* The model offers a frame only if every tracker update it can lead to
\* stays inside the bounds.
InBounds(r, state, cap, live) ==
    /\ Len(r.trackers) <= live
    /\ r.next <= 1 + (IF state = STATE_PHASE_1_SCANNING
                      THEN cap ELSE MaxIdAfterReset)

\* Lines 77-166: a frame is read, its usable detections become current_*
\* and the tracker is updated with them. cap bounds the IDs and live the
\* tracked objects alive at once.
DetectAndTrackWithin(F, cap, live) ==
    /\ pc = "track"
    /\ \E raw \in F :
         LET u  == Usable(raw)
             C  == [i \in 1..Len(u) |-> u[i].center]
             Dt == [i \in 1..Len(u) |-> u[i].data]
             results == {UpdateTrackers(active_trackers, C, Dt,
                                        next_object_id, rows) :
                         rows \in Orders(active_trackers, C)}
         IN  /\ \A r \in results : InBounds(r, current_state, cap, live)
             /\ decoded_info' = raw
             /\ current_centers' = C
             /\ current_data' = Dt
             /\ \E r \in results :
                  /\ active_trackers' = r.trackers
                  /\ next_object_id' = r.next
    /\ pc' = "step"
    /\ UNCHANGED <<stop_requested, processed_ids, current_state,
                   phase_1_votes, phase_1_decision, phase_2_decision>>

DetectAndTrack(F, cap) == DetectAndTrackWithin(F, cap, MaxTrackers)

\* (mutation of AfterPhaseOne: phase 2 is skipped)
AfterPhaseOneSkips == STATE_MISSION_COMPLETE

\* current_state = "STATE_PHASE_2_SCANNING", line 214
AfterPhaseOne == STATE_PHASE_2_SCANNING

\* (mutation of AfterPhaseTwo: the state is not advanced)
AfterPhaseTwoStays == STATE_PHASE_2_SCANNING

\* current_state = "STATE_MISSION_COMPLETE", line 256
AfterPhaseTwo == STATE_MISSION_COMPLETE

\* Lines 176-226.
PhaseOneStep ==
    LET r == VoteLoop([processed |-> processed_ids, votes |-> phase_1_votes],
                      ObjectsToProcess(active_trackers, processed_ids), 1)
    IN  /\ phase_1_votes' = r.votes
        /\ IF PhaseOneComplete(r.votes)
           THEN /\ phase_1_decision' = MostCommon(r.votes)
                /\ current_state' = AfterPhaseOne
                /\ active_trackers' = <<>>
                /\ processed_ids' = {}
                /\ next_object_id' = 1
           ELSE /\ processed_ids' = r.processed
                /\ UNCHANGED <<phase_1_decision, current_state,
                               active_trackers, next_object_id>>
        /\ UNCHANGED phase_2_decision

\* (mutation of PhaseTwoStep: every unprocessed object is looked at and the
\* first with a phase-2 payload is taken)
PhaseTwoStepAnyValid ==
    LET objs  == ObjectsToProcess(active_trackers, processed_ids)
        valid == {i \in 1..Len(objs) :
                    objs[i].data \in Range(VALID_PHASE_2_COMMANDS)}
    IN  /\ IF valid # {}
           THEN LET o == objs[CHOOSE i \in valid : \A j \in valid : i <= j]
                IN  /\ processed_ids' = processed_ids \cup {o.id}
                    /\ phase_2_decision' = o.data
                    /\ current_state' = AfterPhaseTwo
           ELSE UNCHANGED <<processed_ids, phase_2_decision, current_state>>
        /\ UNCHANGED <<active_trackers, next_object_id, phase_1_votes,
                       phase_1_decision>>

\* (mutation of PhaseTwoStep: the decision is stored before the payload is
\* tested against the phase-2 vocabulary)
PhaseTwoStepStoresUntested ==
    LET objs == ObjectsToProcess(active_trackers, processed_ids)
    IN  /\ IF Len(objs) > 0
           THEN /\ phase_2_decision' = objs[1].data
                /\ IF objs[1].data \in Range(VALID_PHASE_2_COMMANDS)
                   THEN /\ processed_ids' = processed_ids \cup {objs[1].id}
                        /\ current_state' = AfterPhaseTwo
                   ELSE UNCHANGED <<processed_ids, current_state>>
           ELSE UNCHANGED <<processed_ids, phase_2_decision, current_state>>
        /\ UNCHANGED <<active_trackers, next_object_id, phase_1_votes,
                       phase_1_decision>>

\* Lines 229-263.
PhaseTwoStep ==
    LET objs == ObjectsToProcess(active_trackers, processed_ids)
    IN  /\ IF Len(objs) > 0 /\ objs[1].data \in Range(VALID_PHASE_2_COMMANDS)
           THEN /\ processed_ids' = processed_ids \cup {objs[1].id}
                /\ phase_2_decision' = objs[1].data
                /\ current_state' = AfterPhaseTwo
           ELSE UNCHANGED <<processed_ids, phase_2_decision, current_state>>
        /\ UNCHANGED <<active_trackers, next_object_id, phase_1_votes,
                       phase_1_decision>>

\* (mutation of MissionCompleteStep: the terminal branch is missing and a
\* completed mission runs the phase-2 branch again)
MissionCompleteFallsThrough == PhaseTwoStep

\* Lines 266-269.
MissionCompleteStep ==
    UNCHANGED <<active_trackers, processed_ids, next_object_id, current_state,
                phase_1_votes, phase_1_decision, phase_2_decision>>

\* Lines 169-269: the branch of the current state.
StateMachine ==
    CASE current_state = STATE_PHASE_1_SCANNING -> PhaseOneStep
      [] current_state = STATE_PHASE_2_SCANNING -> PhaseTwoStep
      [] current_state = STATE_MISSION_COMPLETE -> MissionCompleteStep
      [] OTHER -> MissionCompleteStep

\* Lines 169-308: the state machine, the drawing, and the poll of the key:
\* on 'q' the loop is left (break), otherwise it goes back to its top.
StateStep ==
    /\ pc = "step"
    /\ StateMachine
    /\ pc' = IF stop_requested THEN "done" ELSE "track"
    /\ UNCHANGED <<stop_requested, decoded_info, current_centers, current_data>>

\* The variables of the tracker and of the state machine.
mission == <<active_trackers, processed_ids, next_object_id, current_state,
             phase_1_votes, phase_1_decision, phase_2_decision>>
\* What the detection of a tick leaves behind.
detection == <<decoded_info, current_centers, current_data>>

\* (mutation of CaptureFails: the continue is missing and the tracker is
\* updated with no detections)
CaptureFailsThenTracks ==
    /\ pc = "track"
    /\ pc' = "backoff"
    /\ LET r == UpdateTrackers(active_trackers, <<>>, <<>>, next_object_id, <<>>)
       IN  /\ active_trackers' = r.trackers
           /\ next_object_id' = r.next
    /\ UNCHANGED <<stop_requested, detection, processed_ids, current_state,
                   phase_1_votes, phase_1_decision, phase_2_decision>>

\* Lines 77-80: cap.read() fails or returns no frame; the loop logs a
\* warning and sleeps.
CaptureFails ==
    /\ pc = "track"
    /\ pc' = "backoff"
    /\ UNCHANGED <<stop_requested, detection, mission>>

\* Line 81: continue, to the top of the loop.
Continue ==
    /\ pc = "backoff"
    /\ pc' = "track"
    /\ UNCHANGED <<stop_requested, detection, mission>>

\* Lines 84-87 raise (the fallback cvtColor of preprocess_for_qr, line 41, or
\* detectAndDecodeMulti): control goes to the handler of line 310.
DetectionRaises ==
    /\ pc = "track"
    /\ pc' = "except"
    /\ UNCHANGED <<stop_requested, detection, mission>>

\* Lines 169-304: the state machine has run and the drawing raises (a cv2
\* call such as imshow): control goes to the handler of line 310.
DrawingRaises ==
    /\ pc = "step"
    /\ StateMachine
    /\ pc' = "except"
    /\ UNCHANGED <<stop_requested, detection>>

\* Lines 310-315: the error is logged, the loop sleeps and goes on.
Recover ==
    /\ pc = "except"
    /\ pc' = "track"
    /\ UNCHANGED <<stop_requested, detection, mission>>

\* The operator presses 'q' while the loop runs.
RequestStop ==
    /\ pc \notin {"done", "released"}
    /\ ~stop_requested
    /\ stop_requested' = TRUE
    /\ UNCHANGED <<pc, detection, mission>>

\* Lines 317-321: the cleanup after the loop.
Cleanup ==
    /\ pc = "done"
    /\ pc' = "released"
    /\ UNCHANGED <<stop_requested, detection, mission>>

Init ==
    /\ pc = "track"
    /\ stop_requested = FALSE
    /\ decoded_info = <<>>
    /\ current_centers = <<>>
    /\ current_data = <<>>
    /\ active_trackers = <<>>
    /\ processed_ids = {}
    /\ next_object_id = 1
    /\ current_state = STATE_PHASE_1_SCANNING
    /\ phase_1_votes = <<>>
    /\ phase_1_decision = None
    /\ phase_2_decision = None

\* The mission one vote before the target: VOTE_TARGET - 1 markers have been
\* seen one after the other, each has voted and has since expired.
InitEndgame ==
    /\ pc = "track"
    /\ stop_requested = FALSE
    /\ decoded_info = <<>>
    /\ current_centers = <<>>
    /\ current_data = <<>>
    /\ active_trackers = <<>>
    /\ processed_ids = {QRId(n) : n \in 1..(VOTE_TARGET - 1)}
    /\ next_object_id = VOTE_TARGET
    /\ current_state = STATE_PHASE_1_SCANNING
    /\ phase_1_votes \in [1..(VOTE_TARGET - 1) ->
                            Range(VALID_PHASE_1_COMMANDS) \cap EndgamePayloads]
    /\ phase_1_decision = None
    /\ phase_2_decision = None

\* The same, with every ledger over the whole phase-1 vocabulary.
InitVote ==
    /\ pc = "track"
    /\ stop_requested = FALSE
    /\ decoded_info = <<>>
    /\ current_centers = <<>>
    /\ current_data = <<>>
    /\ active_trackers = <<>>
    /\ processed_ids = {QRId(n) : n \in 1..(VOTE_TARGET - 1)}
    /\ next_object_id = VOTE_TARGET
    /\ current_state = STATE_PHASE_1_SCANNING
    /\ phase_1_votes \in [1..(VOTE_TARGET - 1) -> Range(VALID_PHASE_1_COMMANDS)]
    /\ phase_1_decision = None
    /\ phase_2_decision = None

Next == DetectAndTrack(MissionFrames, MaxId) \/ StateStep
NextEndgame == DetectAndTrack(EndgameFrames, MaxId) \/ StateStep
NextVote == DetectAndTrack(VoteFrames, MaxId) \/ StateStep
NextTrack == DetectAndTrack(TrackFrames, MaxTrackId) \/ StateStep
NextConsume == DetectAndTrack(ConsumeFrames, MaxConsumeId) \/ StateStep
NextCrowd == DetectAndTrackWithin(CrowdFrames, MaxTrackId, MaxCrowd) \/ StateStep
NextFaults ==
    \/ DetectAndTrack(FaultFrames, MaxTrackId)
    \/ StateStep
    \/ CaptureFails
    \/ Continue
    \/ DetectionRaises
    \/ DrawingRaises
    \/ Recover
    \/ RequestStop
    \/ Cleanup

\* The whole mission from the start of the program.
Spec == Init /\ [][Next]_vars
\* The end of phase 1 and what follows, with both phase-2 payloads.
SpecEndgame == InitEndgame /\ [][NextEndgame]_vars
\* The fifth vote on every ledger of four, one marker in view at a time.
SpecVote == InitVote /\ [][NextVote]_vars
\* The tracker over centroids at, inside and beyond the gate.
SpecTrack == Init /\ [][NextTrack]_vars
\* Phase 1 over markers that change their payload between frames.
SpecConsume == Init /\ [][NextConsume]_vars
\* Phase 1 over three markers in a row, with room for an object that the
\* greedy matching leaves unmatched.
SpecCrowd == Init /\ [][NextCrowd]_vars
\* The loop with its early exits: failed reads, exceptions, undecodable
\* detections, the 'q' key.
SpecFaults == Init /\ [][NextFaults]_vars

(***************************************************************************)
(* Properties                                                              *)
(***************************************************************************)
\* A tick begins (and the previous one has ended) where pc = "track"; the
\* tracker update is the step from pc = "track", the state machine the step
\* from pc = "step".
TickBoundary == pc = "track"
TrackerUpdated == pc = "track" /\ pc' = "step"
StateStepped == pc = "step" /\ pc' = "track"

\* C1: the vote ledger never holds more than 5 entries.
C1_LedgerAtMostFive == Len(phase_1_votes) <= VOTE_TARGET

\* C2: at the end of a tick the state is not PHASE_1_SCANNING, and
\* phase1_decision is set, once the ledger holds 5 or more votes.
C2_FifthVoteEndsPhaseOne ==
    (TickBoundary /\ Len(phase_1_votes) >= VOTE_TARGET)
        => /\ current_state # STATE_PHASE_1_SCANNING
           /\ phase_1_decision # None

\* C3: the phase-1 decision is a vote of the 5-vote ledger that no other vote
\* outnumbers, and of the votes that occur as often it is the one whose first
\* occurrence is earliest; [go left, go right, go left, go right, go straight]
\* gives go left.
Occurrences(votes, v) == Cardinality({i \in 1..Len(votes) : votes[i] = v})
FirstAt(votes, v) ==
    CHOOSE i \in 1..Len(votes) :
        votes[i] = v /\ \A j \in 1..(i - 1) : votes[j] # v
C3_MajorityFirstSeen ==
    phase_1_decision # None =>
        /\ Len(phase_1_votes) = VOTE_TARGET
        /\ phase_1_decision \in Range(phase_1_votes)
        /\ \A v \in Range(phase_1_votes) :
             /\ Occurrences(phase_1_votes, v)
                    <= Occurrences(phase_1_votes, phase_1_decision)
             /\ Occurrences(phase_1_votes, v)
                    = Occurrences(phase_1_votes, phase_1_decision)
                  => FirstAt(phase_1_votes, phase_1_decision)
                        <= FirstAt(phase_1_votes, v)
        /\ phase_1_votes = <<"go left", "go right", "go left", "go right",
                             "go straight">>
             => phase_1_decision = "go left"
C3_Witness ==
    /\ phase_1_votes = <<"go right", "go left", "go left", "go right",
                         "go straight">>
    /\ phase_1_decision = "go right"

\* C4: the state-machine step in which the ledger reaches (or passes) 5 votes
\* leaves the tracker empty, the processed set empty and the ID counter at 1.
C4_FifthVoteResetsTracker ==
    [][(StateStepped /\ Len(phase_1_votes) < VOTE_TARGET
                     /\ Len(phase_1_votes') >= VOTE_TARGET)
          => /\ active_trackers' = <<>>
             /\ processed_ids' = {}
             /\ next_object_id' = 1]_vars

\* C5: the mission state changes only PHASE_1_SCANNING -> PHASE_2_SCANNING
\* and PHASE_2_SCANNING -> MISSION_COMPLETE.
C5_ForwardOnly ==
    [][\/ current_state' = current_state
       \/ /\ current_state = STATE_PHASE_1_SCANNING
          /\ current_state' = STATE_PHASE_2_SCANNING
       \/ /\ current_state = STATE_PHASE_2_SCANNING
          /\ current_state' = STATE_MISSION_COMPLETE]_vars
C5_Witness ==
    /\ current_state = STATE_MISSION_COMPLETE
    /\ Len(active_trackers) > 0

\* C6: a decision that has a value keeps it, and a completed mission keeps
\* its state and both decisions, whatever is detected.
C6_WriteOnce ==
    [][/\ phase_1_decision # None => phase_1_decision' = phase_1_decision
       /\ phase_2_decision # None => phase_2_decision' = phase_2_decision
       /\ current_state = STATE_MISSION_COMPLETE
            => /\ current_state' = current_state
               /\ phase_1_decision' = phase_1_decision
               /\ phase_2_decision' = phase_2_decision]_vars
\* A completed mission about to step on an unprocessed object that carries
\* the other phase-2 payload.
C6_Witness ==
    /\ pc = "step"
    /\ current_state = STATE_MISSION_COMPLETE
    /\ \E i \in 1..Len(active_trackers) :
         /\ active_trackers[i].id \notin processed_ids
         /\ active_trackers[i].data \in Range(VALID_PHASE_2_COMMANDS)
         /\ active_trackers[i].data # phase_2_decision

\* The n of the ID QR-n.
IdNumber(id) == id[2]
\* The entries of the tracked set T under the ID id (C7: never more than one).
EntriesOf(T, id) == {i \in 1..Len(T) : T[i].id = id}
\* Within the gate, for the properties: distance <= MAX_DISTANCE.
Near(a, b) == Dist2(a, b) <= MAX_DISTANCE * MAX_DISTANCE

\* C7: within a phase every ID given to a new tracked object is one the
\* counter has not yet given: every ID of a live or processed object lies below
\* the counter, a tracker update gives only IDs from the counter's old value up
\* to below its new one, the counter falls only at the phase transition (where
\* tracked and processed sets are emptied), and no two live objects share an ID.
C7_FreshIds ==
    [][/\ \A id \in TrackerIds(active_trackers) \cup processed_ids :
            IdNumber(id) < next_object_id
       /\ Cardinality(TrackerIds(active_trackers')) = Len(active_trackers')
       /\ TrackerUpdated =>
            /\ next_object_id' >= next_object_id
            /\ \A id \in TrackerIds(active_trackers') \ TrackerIds(active_trackers) :
                 /\ next_object_id <= IdNumber(id)
                 /\ IdNumber(id) < next_object_id'
                 /\ id \notin processed_ids'
       /\ StateStepped =>
            \/ next_object_id' = next_object_id
            \/ /\ current_state' # current_state
               /\ next_object_id' = 1
               /\ active_trackers' = <<>>
               /\ processed_ids' = {}]_vars
\* In phase 2 (the counter has been reset), and in phase 1 too: a processed
\* object has been destroyed and an object created after it is live.
C7_Witness ==
    /\ \E id \in processed_ids :
         /\ id \notin TrackerIds(active_trackers)
         /\ \E i \in 1..Len(active_trackers) :
              IdNumber(active_trackers[i].id) > IdNumber(id)
    /\ phase_1_decision # None

\* The tracked object T[r] and the observation at C[c] are those of C8: the
\* object was matched on the previous update, the observation is within
\* MAX_DISTANCE of it and every other observation is farther from it.
Follows(T, C, r, c) ==
    /\ T[r].unseen = 0
    /\ Near(T[r].center, C[c])
    /\ \A c2 \in (1..Len(C)) \ {c} :
         Dist2(T[r].center, C[c2]) > Dist2(T[r].center, C[c])
\* The observation c is, after the update, the one of the object with T[r]'s ID.
KeepsId(T, C, Dt, r, c, T2) ==
    \E i \in 1..Len(T2) :
        /\ T2[i].id = T[r].id
        /\ T2[i].center = C[c]
        /\ T2[i].data = Dt[c]
        /\ T2[i].unseen = 0

\* C8 (as stated): an observation that moved by at most MAX_DISTANCE, with no
\* other observation closer to its tracked object, keeps that object's ID,
\* wherever the other tracked objects lie.
C8_IdStable ==
    [][TrackerUpdated =>
         \A r \in 1..Len(active_trackers), c \in 1..Len(current_centers') :
            Follows(active_trackers, current_centers', r, c)
              => KeepsId(active_trackers, current_centers', current_data',
                         r, c, active_trackers')]_vars

\* C8 (amended): the same, provided also that every other tracked object is
\* farther from the observation's new position than its own tracked object is.
C8_IdStableWhenNearest ==
    [][TrackerUpdated =>
         \A r \in 1..Len(active_trackers), c \in 1..Len(current_centers') :
            (/\ Follows(active_trackers, current_centers', r, c)
             /\ \A r2 \in (1..Len(active_trackers)) \ {r} :
                  Dist2(active_trackers[r2].center, current_centers'[c])
                    > Dist2(active_trackers[r].center, current_centers'[c]))
              => KeepsId(active_trackers, current_centers', current_data',
                         r, c, active_trackers')]_vars
\* After an update: an object has followed its observation to a new position
\* at which another, temporarily unseen, object within the gate is farther
\* from the observation than the object's own previous position was.
C8_Witness ==
    /\ pc = "step"
    /\ \E i, j \in 1..Len(active_trackers) :
         /\ i # j
         /\ active_trackers[i].unseen = 0
         /\ active_trackers[i].id \in processed_ids
         /\ active_trackers[i].center \in Range(current_centers)
         /\ active_trackers[j].unseen >= 1
         /\ active_trackers[j].center # active_trackers[i].center
         /\ Near(active_trackers[j].center, active_trackers[i].center)

\* No observation of the frame can be committed to the object t: there is
\* none, or each is farther than MAX_DISTANCE from it.
NoneInReach(t, C) == \A c \in 1..Len(C) : ~Near(t.center, C[c])

\* C9: frames_unseen counts the consecutive updates without a match (0 after a
\* match, one more after each miss, a miss being certain when the frame has no
\* observation in reach); an object that has missed MAX_FRAMES_UNSEEN updates
\* or fewer is still tracked, unchanged, and the miss after MAX_FRAMES_UNSEEN
\* misses removes it.
C9_ExpiresAfterThreshold ==
    [][/\ \A i \in 1..Len(active_trackers) :
            active_trackers[i].unseen \in 0..MAX_FRAMES_UNSEEN
       /\ TrackerUpdated =>
            \A r \in 1..Len(active_trackers) :
               LET t    == active_trackers[r]
                   post == EntriesOf(active_trackers', t.id)
               IN  \/ /\ ~NoneInReach(t, current_centers')
                      /\ \E i \in post : active_trackers'[i].unseen = 0
                   \/ /\ t.unseen < MAX_FRAMES_UNSEEN
                      /\ \E i \in post :
                           active_trackers'[i] = [t EXCEPT !.unseen = t.unseen + 1]
                   \/ /\ t.unseen = MAX_FRAMES_UNSEEN
                      /\ post = {}]_vars
\* After an update with observations in the frame: an object is at
\* MAX_FRAMES_UNSEEN misses and still tracked.
C9_Witness ==
    /\ pc = "step"
    /\ Len(current_centers) > 0
    /\ \E i \in 1..Len(active_trackers) :
         active_trackers[i].unseen = MAX_FRAMES_UNSEEN

\* C10: an observation farther than MAX_DISTANCE from every tracked object
\* becomes exactly one new tracked object, with frames_unseen = 0, unprocessed,
\* under an ID from the counter (so not given before in the phase, C7), and no
\* object that existed before the update takes the observation.
C10_FarObservationIsNew ==
    [][TrackerUpdated =>
         \A c \in 1..Len(current_centers') :
            (\A r \in 1..Len(active_trackers) :
                Dist2(active_trackers[r].center, current_centers'[c])
                    > MAX_DISTANCE * MAX_DISTANCE)
              => LET at == {i \in 1..Len(active_trackers') :
                              active_trackers'[i].center = current_centers'[c]}
                 IN  /\ Cardinality(at) = 1
                     /\ \A i \in at :
                          LET n == active_trackers'[i] IN
                          /\ n.id \notin TrackerIds(active_trackers)
                          /\ n.id \notin processed_ids'
                          /\ next_object_id <= IdNumber(n.id)
                          /\ IdNumber(n.id) < next_object_id'
                          /\ n.unseen = 0
                          /\ n.data = current_data'[c]]_vars
\* After an update: an object created by it, just beyond the gate of an
\* object that existed before and has missed this update.
C10_Witness ==
    /\ pc = "step"
    /\ \E i, j \in 1..Len(active_trackers) :
         /\ active_trackers[i].id \in processed_ids
         /\ active_trackers[i].unseen = 1
         /\ active_trackers[j].id \notin processed_ids
         /\ active_trackers[j].unseen = 0
         /\ active_trackers[j].center \in Range(current_centers)
         /\ ~Near(active_trackers[i].center, active_trackers[j].center)
         /\ Dist2(active_trackers[i].center, active_trackers[j].center)
              < (MAX_DISTANCE + 2) * (MAX_DISTANCE + 2)

\* C11: a tick that raises leaves everything as it was when the tick began.
\* Stated at the step that raises: a tick that raises in the detection has
\* changed nothing; the tracker update leaves mission state, ledger, decisions
\* and processed set alone, so in a tick that raises later these still have to
\* be what they were when the tracker update ended.
C11_FailedTickLeavesNoTrace ==
    [][pc' = "except" =>
         /\ UNCHANGED <<current_state, phase_1_votes, phase_1_decision,
                        phase_2_decision, processed_ids>>
         /\ pc = "track" => UNCHANGED <<active_trackers, next_object_id>>]_vars

\* C12: a tick whose read fails changes neither tracker (frames_unseen
\* included) nor processed set, ID counter, ledger, mission state or
\* decisions, and the loop goes from the backoff to the top of the next tick.
C12_FailedReadSkipsTick ==
    [][/\ (pc = "track" /\ pc' = "backoff") => UNCHANGED mission
       /\ pc = "backoff" => /\ UNCHANGED mission
                            /\ pc' \in {"backoff", "track"}]_vars
\* A read has failed while an object that has missed an update, and an object
\* that has not, are tracked.
C12_Witness ==
    /\ pc = "backoff"
    /\ \E i, j \in 1..Len(active_trackers) :
         /\ active_trackers[i].unseen >= 1
         /\ active_trackers[j].unseen = 0

\* The tracked objects not yet processed, as positions in iteration order,
\* and the earliest of them.
Unprocessed(T, P) == {i \in 1..Len(T) : T[i].id \notin P}
Earliest(T, P) ==
    T[CHOOSE i \in Unprocessed(T, P) : \A j \in Unprocessed(T, P) : i <= j]

\* C13: in a phase-2 tick whose earliest unprocessed object carries a phase-2
\* payload, that object is marked processed, phase2_decision becomes its
\* payload and the mission is complete.
C13_PhaseTwoAccepts ==
    [][(/\ StateStepped
        /\ current_state = STATE_PHASE_2_SCANNING
        /\ Unprocessed(active_trackers, processed_ids) # {}
        /\ Earliest(active_trackers, processed_ids).data
             \in Range(VALID_PHASE_2_COMMANDS))
         => /\ processed_ids' = processed_ids
                 \cup {Earliest(active_trackers, processed_ids).id}
            /\ phase_2_decision' = Earliest(active_trackers, processed_ids).data
            /\ current_state' = STATE_MISSION_COMPLETE]_vars
\* The mission was completed by the earlier of two objects; the later one
\* carries the other phase-2 payload and is unprocessed.
C13_Witness ==
    /\ current_state = STATE_MISSION_COMPLETE
    /\ Len(active_trackers) = 2
    /\ active_trackers[1].id \in processed_ids
    /\ active_trackers[1].data = "drop right"
    /\ phase_2_decision = "drop right"
    /\ active_trackers[2].id \notin processed_ids
    /\ active_trackers[2].data = "drop left"

\* C14: in a phase-2 tick whose earliest unprocessed object carries no phase-2
\* payload, mission state, phase2_decision and processed set stay as they are,
\* whatever the later objects carry; and as long as that object is tracked, it
\* is still the earliest unprocessed one after the next tracker update.
C14_PhaseTwoWaitsOnEarliest ==
    [][/\ (/\ StateStepped
           /\ current_state = STATE_PHASE_2_SCANNING
           /\ Unprocessed(active_trackers, processed_ids) # {}
           /\ Earliest(active_trackers, processed_ids).data
                \notin Range(VALID_PHASE_2_COMMANDS))
            => UNCHANGED <<current_state, phase_2_decision, processed_ids>>
       /\ (/\ TrackerUpdated
           /\ current_state = STATE_PHASE_2_SCANNING
           /\ Unprocessed(active_trackers, processed_ids) # {}
           /\ Earliest(active_trackers, processed_ids).id
                \in TrackerIds(active_trackers'))
            => /\ Unprocessed(active_trackers', processed_ids') # {}
               /\ Earliest(active_trackers', processed_ids').id
                    = Earliest(active_trackers, processed_ids).id]_vars
\* Phase 2 after a state-machine step: nothing is decided, the earliest
\* object carries a phase-1 payload and has already missed an update, a later
\* unprocessed object carries a phase-2 payload.
C14_Witness ==
    /\ pc = "track"
    /\ current_state = STATE_PHASE_2_SCANNING
    /\ phase_2_decision = None
    /\ Len(active_trackers) = 2
    /\ processed_ids = {}
    /\ active_trackers[1].data = "go left"
    /\ active_trackers[1].unseen >= 1
    /\ active_trackers[2].data = "drop left"

\* C15: an object that is processed stays processed as long as it is tracked;
\* a tracker update changes no processed flag; an object becomes processed
\* only in a state-machine step that consumes it: in phase 1 its phase-1
\* payload goes to the ledger, in phase 2 its payload becomes phase2_decision.
C15_ProcessedOnceByConsumption ==
    [][/\ \A id \in processed_ids :
            id \in TrackerIds(active_trackers')
              => id \in processed_ids'
       /\ TrackerUpdated => processed_ids' = processed_ids
       /\ \A id \in processed_ids' \ processed_ids :
            /\ StateStepped
            /\ \E i \in 1..Len(active_trackers) :
                 /\ active_trackers[i].id = id
                 /\ \/ /\ current_state = STATE_PHASE_1_SCANNING
                       /\ active_trackers[i].data \in Range(VALID_PHASE_1_COMMANDS)
                       /\ \E k \in (Len(phase_1_votes) + 1)..Len(phase_1_votes') :
                            phase_1_votes'[k] = active_trackers[i].data
                    \/ /\ current_state = STATE_PHASE_2_SCANNING
                       /\ phase_2_decision' = active_trackers[i].data
                       /\ current_state' = STATE_MISSION_COMPLETE]_vars
\* A processed object has since missed an update and is still tracked and
\* processed, next to an object that was looked at and left unprocessed.
C15_Witness ==
    /\ pc = "track"
    /\ \E i, j \in 1..Len(active_trackers) :
         /\ active_trackers[i].id \in processed_ids
         /\ active_trackers[i].unseen >= 1
         /\ active_trackers[j].id \notin processed_ids
         /\ active_trackers[j].unseen >= 1

\* The tracked set T after an update that matched nothing and created
\* nothing: every counter one higher, the objects beyond the threshold gone.
StillTracked(t) == t.unseen <= MAX_FRAMES_UNSEEN
AllMissed(T) ==
    SelectSeq([i \in 1..Len(T) |-> [T[i] EXCEPT !.unseen = @ + 1]], StillTracked)

\* C16: after a tracker update every object with frames_unseen = 0 (created
\* or matched by it) has centroid and payload of a detection of the frame
\* whose payload is not empty; and an update on a frame whose detections all
\* have empty payloads leaves what an update without detections leaves.
C16_EmptyPayloadIsNoDetection ==
    [][TrackerUpdated =>
         /\ \A j \in 1..Len(active_trackers') :
              active_trackers'[j].unseen = 0 =>
                 \E k \in 1..Len(decoded_info') :
                    /\ decoded_info'[k].data # ""
                    /\ decoded_info'[k].data = active_trackers'[j].data
                    /\ decoded_info'[k].center = active_trackers'[j].center
         /\ (\A k \in 1..Len(decoded_info') : decoded_info'[k].data = "")
              => /\ active_trackers' = AllMissed(active_trackers)
                 /\ next_object_id' = next_object_id
                 /\ current_centers' = <<>>
                 /\ current_data' = <<>>]_vars
\* After an update: the frame had two detections, one of them undecoded and
\* at the centroid of a tracked object, and that object has missed the update.
C16_Witness ==
    /\ pc = "step"
    /\ Len(decoded_info) = 2
    /\ Len(current_centers) = 1
    /\ \E k \in 1..Len(decoded_info), i \in 1..Len(active_trackers) :
         /\ decoded_info[k].data = ""
         /\ active_trackers[i].center = decoded_info[k].center
         /\ active_trackers[i].unseen >= 1

\* C17: a failure of preprocessing or detection does not propagate: a tick
\* that has read its frame never goes from the detection to the loop's error
\* handler, it goes on, as with no detections, to the tracker update (which
\* counts a miss for every tracked object) and the state machine.
C17_DetectionFailureIsEmptyFrame ==
    [][pc = "track" =>
         /\ pc' # "except"
         /\ pc' \notin {"track", "backoff"} =>
              /\ pc' = "step"
              /\ decoded_info' = <<>> =>
                   active_trackers' = AllMissed(active_trackers)]_vars

\* The step ends a tick: the state machine step has run to the poll of the
\* key, or the backoff or the error handler has.
TickEnds ==
    /\ pc \in {"step", "backoff", "except"}
    /\ pc' \in {"track", "done"}

\* C18: once 'q' is pressed the tick under way is the last: when it ends the
\* loop is left, whether the tick ran to its end, was skipped for want of a
\* frame or raised; and the loop once left, the cleanup is what runs.
C18_StopEndsLoopAfterTick ==
    [][/\ (stop_requested /\ TickEnds) => pc' = "done"
       /\ pc = "done" => pc' \in {"done", "released"}]_vars

\* C19: a phase-1 tick appends to the ledger the payloads of the unprocessed
\* objects that carry a phase-1 payload, each once and in iteration order, and
\* (unless the tick ends the phase, which destroys every object) marks exactly
\* those objects processed; the ledger never loses or changes an entry.
C19_VotesAppendedInOrder ==
    [][/\ Len(phase_1_votes') >= Len(phase_1_votes)
       /\ SubSeq(phase_1_votes', 1, Len(phase_1_votes)) = phase_1_votes
       /\ (StateStepped /\ current_state = STATE_PHASE_1_SCANNING) =>
            LET Votes(t) == /\ t.id \notin processed_ids
                            /\ t.data \in Range(VALID_PHASE_1_COMMANDS)
                voters   == SelectSeq(active_trackers, Votes)
            IN  /\ phase_1_votes' =
                      phase_1_votes \o [k \in 1..Len(voters) |-> voters[k].data]
                /\ current_state' = STATE_PHASE_1_SCANNING =>
                      processed_ids' =
                          processed_ids \cup {voters[k].id : k \in 1..Len(voters)}]_vars
\* Two objects created by one frame have voted, the earlier go right and the
\* later go left; since then the earlier one changed its payload to one that
\* is ignored.
C19_Witness ==
    /\ pc = "track"
    /\ phase_1_votes = <<"go right", "go left">>
    /\ Len(active_trackers) = 2
    /\ active_trackers[1].id = QRId(1)
    /\ active_trackers[1].data = "drop left"
    /\ active_trackers[2].data = "go left"
    /\ processed_ids = {QRId(1), QRId(2)}

\* C20: a tracker update changes no processed flag; an object it matched
\* (frames_unseen = 0 afterwards) is under its ID where it was, with the
\* centroid and payload of an observation within MAX_DISTANCE of its previous
\* centroid; and a phase-1 tick takes as many votes as there are unprocessed
\* objects with a phase-1 payload, so none from a processed object, whatever
\* its payload has become.
C20_MatchKeepsIdAndProcessed ==
    [][/\ TrackerUpdated =>
            /\ processed_ids' = processed_ids
            /\ \A r \in 1..Len(active_trackers) :
                 \A j \in EntriesOf(active_trackers', active_trackers[r].id) :
                    /\ j <= r
                    /\ active_trackers'[j].unseen = 0 =>
                         \E k \in 1..Len(current_centers') :
                            /\ active_trackers'[j].center = current_centers'[k]
                            /\ active_trackers'[j].data = current_data'[k]
                            /\ Near(active_trackers[r].center, current_centers'[k])
       /\ (StateStepped /\ current_state = STATE_PHASE_1_SCANNING) =>
            Len(phase_1_votes') =
                Len(phase_1_votes)
                  + Cardinality({i \in Unprocessed(active_trackers, processed_ids) :
                        active_trackers[i].data \in Range(VALID_PHASE_1_COMMANDS)})]_vars
\* The only object ever created voted go left, was then matched to an
\* observation that reads go right, and the state machine has stepped since.
C20_Witness ==
    /\ pc = "track"
    /\ next_object_id = 2
    /\ phase_1_votes = <<"go left">>
    /\ processed_ids = {QRId(1)}
    /\ Len(active_trackers) = 1
    /\ active_trackers[1].id = QRId(1)
    /\ active_trackers[1].data = "go right"
    /\ active_trackers[1].unseen = 0

\* The pairs <<tracked object, observation>> an update has committed, read off
\* the tracked sets before (T) and after (T2) it: the object is still tracked
\* under its ID, with frames_unseen = 0, at the observation's position and
\* with its payload.
Committed(T, C, Dt, T2) ==
    {m \in (1..Len(T)) \X (1..Len(C)) :
        \E i \in EntriesOf(T2, T[m[1]].id) :
            /\ T2[i].unseen = 0
            /\ T2[i].center = C[m[2]]
            /\ T2[i].data = Dt[m[2]]}

\* C21: the pairs a tracker update commits are one-to-one (no tracked object
\* with two observations, no observation with two tracked objects), every
\* committed pair is within MAX_DISTANCE, and the gate is inclusive: a lone
\* tracked object and a lone observation are paired exactly when their
\* distance is <= MAX_DISTANCE.
C21_MatchesOneToOneWithinGate ==
    [][TrackerUpdated =>
         LET M == Committed(active_trackers, current_centers', current_data',
                            active_trackers')
         IN  /\ \A m, n \in M : (m[1] = n[1]) <=> (m[2] = n[2])
             /\ \A m \in M :
                  Near(active_trackers[m[1]].center, current_centers'[m[2]])
             /\ (Len(active_trackers) = 1 /\ Len(current_centers') = 1) =>
                  (M = {<<1, 1>>}
                     <=> Dist2(active_trackers[1].center, current_centers'[1])
                           <= MAX_DISTANCE * MAX_DISTANCE)]_vars
\* After an update with two observations exactly MAX_DISTANCE apart: two
\* objects that existed before it have each taken one of them.
C21_Witness ==
    /\ pc = "step"
    /\ Len(current_centers) = 2
    /\ Dist2(current_centers[1], current_centers[2]) = MAX_DISTANCE * MAX_DISTANCE
    /\ \E i, j \in 1..Len(active_trackers) :
         /\ i # j
         /\ {active_trackers[i].id, active_trackers[j].id} \subseteq processed_ids
         /\ active_trackers[i].unseen = 0
         /\ active_trackers[j].unseen = 0
         /\ active_trackers[i].center = current_centers[1]
         /\ active_trackers[j].center = current_centers[2]

\* The reference algorithm of C22. The observations nearest to the object t,
\* and its distance (squared) to them.
NearestObs(t, C) ==
    {c \in 1..Len(C) :
        \A c2 \in 1..Len(C) : Dist2(t.center, C[c]) <= Dist2(t.center, C[c2])}
NearestDist2(t, C) ==
    CHOOSE d \in {Dist2(t.center, C[c]) : c \in 1..Len(C)} :
        \A c \in 1..Len(C) : d <= Dist2(t.center, C[c])
\* The orders that visit the objects by ascending distance to their nearest
\* observation (objects at equal distance in either order).
VisitOrders(T, C) ==
    {o \in [1..Len(T) -> 1..Len(T)] :
        /\ \A i, j \in 1..Len(T) : i # j => o[i] # o[j]
        /\ \A i, j \in 1..Len(T) :
             i < j => NearestDist2(T[o[i]], C) <= NearestDist2(T[o[j]], C)}
\* The one observation each object is offered: its nearest (where two are
\* equally near the claim leaves open which).
Offers(T, C) ==
    {p \in [1..Len(T) -> 1..Len(C)] :
        \A r \in 1..Len(T) : p[r] \in NearestObs(T[r], C)}
\* Visiting the objects in the order o, each takes the observation it is
\* offered if that is within MAX_DISTANCE and no object has taken it yet.
RECURSIVE Pairing(_, _, _, _, _, _)
Pairing(T, C, o, p, k, taken) ==
    IF k > Len(T) THEN {}
    ELSE IF p[o[k]] \notin taken /\ Near(T[o[k]].center, C[p[o[k]]])
    THEN {<<o[k], p[o[k]]>>} \cup Pairing(T, C, o, p, k + 1, taken \cup {p[o[k]]})
    ELSE Pairing(T, C, o, p, k + 1, taken)
ReferencePairings(T, C) ==
    {Pairing(T, C, o, p, 1, {}) : o \in VisitOrders(T, C), p \in Offers(T, C)}

\* C22: a tracker update over objects and observations commits the pairs of
\* the greedy reference algorithm (objects visited by ascending distance to
\* their nearest observation, each offered that observation only); an object
\* whose nearest observation went to another object is unpaired, whatever
\* other observations are within its reach; every unpaired object has aged by
\* one frame or, past MAX_FRAMES_UNSEEN, is gone; every unpaired observation
\* is one new object; and nothing else is tracked.
C22_GreedyNearestMatching ==
    [][(TrackerUpdated /\ Len(active_trackers) > 0 /\ Len(current_centers') > 0) =>
         LET T  == active_trackers
             C  == current_centers'
             T2 == active_trackers'
             M  == Committed(T, C, current_data', T2)
             paired_rows == {m[1] : m \in M}
             paired_cols == {m[2] : m \in M}
             fresh == {i \in 1..Len(T2) : T2[i].id \notin TrackerIds(T)}
         IN  /\ M \in ReferencePairings(T, C)
             /\ \A r \in 1..Len(T) :
                  (\E m \in M : m[1] # r /\ NearestObs(T[r], C) = {m[2]})
                     => r \notin paired_rows
             /\ \A r \in (1..Len(T)) \ paired_rows :
                  IF T[r].unseen < MAX_FRAMES_UNSEEN
                  THEN \E i \in EntriesOf(T2, T[r].id) :
                          T2[i] = [T[r] EXCEPT !.unseen = T[r].unseen + 1]
                  ELSE EntriesOf(T2, T[r].id) = {}
             /\ \A c \in (1..Len(C)) \ paired_cols :
                  Cardinality({i \in fresh : /\ T2[i].center = C[c]
                                             /\ T2[i].data = current_data'[c]
                                             /\ T2[i].unseen = 0}) = 1
             /\ Cardinality(fresh) = Len(C) - Cardinality(paired_cols)
             /\ next_object_id' = next_object_id + Cardinality(fresh)]_vars
\* After an update: an object that existed before has missed it, although a
\* new object has been created within its reach; the observation nearer to it
\* went to another object that existed before.
C22_Witness ==
    /\ pc = "step"
    /\ \E i, j, n \in 1..Len(active_trackers) :
         LET taker == active_trackers[i]
             loser == active_trackers[j]
             new   == active_trackers[n]
         IN  /\ {taker.id, loser.id} \subseteq processed_ids
             /\ new.id \notin processed_ids
             /\ taker.unseen = 0 /\ new.unseen = 0
             /\ loser.unseen = 1
             /\ {taker.center, new.center} \subseteq Range(current_centers)
             /\ Near(loser.center, new.center)
             /\ Dist2(loser.center, taker.center) < Dist2(loser.center, new.center)

\* C23: a tracker update with no usable observation leaves every object that
\* has missed fewer than MAX_FRAMES_UNSEEN updates tracked, in its place, with
\* frames_unseen one higher and nothing else changed; removes the objects that
\* were at MAX_FRAMES_UNSEEN; creates no object; leaves the ID counter alone;
\* and, when nothing was tracked, leaves the tracker as it was and goes on to
\* the state-machine step.
C23_EmptyFrameOnlyAges ==
    [][(TrackerUpdated /\ Len(current_centers') = 0) =>
         LET T    == active_trackers
             T2   == active_trackers'
             kept == {r \in 1..Len(T) : T[r].unseen < MAX_FRAMES_UNSEEN}
         IN  /\ Len(T2) = Cardinality(kept)
             /\ TrackerIds(T2) = {T[r].id : r \in kept}
             /\ \A r \in kept : \A i \in EntriesOf(T2, T[r].id) :
                  /\ T2[i].unseen = T[r].unseen + 1
                  /\ T2[i].center = T[r].center
                  /\ T2[i].data = T[r].data
                  /\ Cardinality({q \in kept : q < r}) = i - 1
             /\ next_object_id' = next_object_id
             /\ T = <<>> => T2 = <<>>
             /\ pc' = "step"]_vars
\* After an update in which the detector found nothing: one object has just
\* reached MAX_FRAMES_UNSEEN and is still tracked, another has been removed.
C23_Witness ==
    /\ pc = "step"
    /\ decoded_info = <<>>
    /\ current_centers = <<>>
    /\ \E i \in 1..Len(active_trackers) :
         active_trackers[i].unseen = MAX_FRAMES_UNSEEN
    /\ processed_ids \ TrackerIds(active_trackers) # {}

\* The tracked objects whose frames_unseen is 0.
SeenNow(T) == {i \in 1..Len(T) : T[i].unseen = 0}

\* C24: after a tracker update, before the state-machine step, the tracked
\* objects with frames_unseen = 0 are as many as the usable observations of
\* the tick: each observation is the position and payload of exactly one of
\* them, each of them is at an observation, and so every tracked object that
\* has no observation has frames_unseen >= 1.
C24_SeenObjectsAreTheObservations ==
    pc = "step" =>
        /\ Cardinality(SeenNow(active_trackers)) = Len(current_centers)
        /\ \A c \in 1..Len(current_centers) :
             Cardinality({i \in SeenNow(active_trackers) :
                            /\ active_trackers[i].center = current_centers[c]
                            /\ active_trackers[i].data = current_data[c]}) = 1
        /\ \A i \in 1..Len(active_trackers) :
             (\A c \in 1..Len(current_centers) :
                 active_trackers[i].center # current_centers[c])
               => active_trackers[i].unseen >= 1
\* After an update of a frame with one decoded and one undecodable detection:
\* one tracked object is at the observation and another has missed the update.
C24_Witness ==
    /\ pc = "step"
    /\ Len(decoded_info) = 2
    /\ Len(current_centers) = 1
    /\ \E i, j \in 1..Len(active_trackers) :
         /\ active_trackers[i].unseen = 0
         /\ active_trackers[i].center = current_centers[1]
         /\ active_trackers[j].unseen >= 1

\* C25: at every tick boundary the mission state and the decisions agree:
\* phase_1_decision is absent exactly in PHASE_1_SCANNING, phase_2_decision is
\* present exactly in MISSION_COMPLETE, a present phase_1_decision is a
\* phase-1 command that occurs in the ledger, and a present phase_2_decision
\* is a phase-2 command.
C25_StateAndDecisionsAgree ==
    TickBoundary =>
        /\ (phase_1_decision = None) <=> (current_state = STATE_PHASE_1_SCANNING)
        /\ (phase_2_decision # None) <=> (current_state = STATE_MISSION_COMPLETE)
        /\ phase_1_decision # None =>
             /\ phase_1_decision \in Range(VALID_PHASE_1_COMMANDS)
             /\ phase_1_decision \in Range(phase_1_votes)
        /\ phase_2_decision # None =>
             phase_2_decision \in Range(VALID_PHASE_2_COMMANDS)
\* The mission is complete at a tick boundary: both decisions are present, the
\* first is the ledger's majority and the second a drop command.
C25_Witness ==
    /\ TickBoundary
    /\ current_state = STATE_MISSION_COMPLETE
    /\ phase_1_decision = MostCommon(phase_1_votes)
    /\ phase_2_decision = "drop right"

\* C26: at the end of every tick that leaves the mission in PHASE_1_SCANNING
\* the ledger has one vote per processed ID and holds phase-1 commands only;
\* and a state-machine step of phase 1 adds as many votes as it marks IDs
\* processed, none of them an ID that was processed before: an ID votes once,
\* and a marker that comes back under a new ID votes again.
C26_OneVotePerId ==
    [][/\ (TickBoundary /\ current_state = STATE_PHASE_1_SCANNING) =>
            /\ Len(phase_1_votes) = Cardinality(processed_ids)
            /\ Range(phase_1_votes) \subseteq Range(VALID_PHASE_1_COMMANDS)
       /\ (StateStepped /\ current_state' = STATE_PHASE_1_SCANNING) =>
            /\ processed_ids \subseteq processed_ids'
            /\ Len(phase_1_votes') - Len(phase_1_votes)
                 = Cardinality(processed_ids' \ processed_ids)
            /\ processed_ids' \ processed_ids
                 \subseteq {active_trackers[i].id :
                               i \in Unprocessed(active_trackers, processed_ids)}]_vars
\* Phase 1 at a tick boundary: the first object has voted and has since missed
\* an update; the only observation of the frame, out of its reach, became a
\* second object, which has cast the same vote.
C26_Witness ==
    /\ TickBoundary
    /\ current_state = STATE_PHASE_1_SCANNING
    /\ phase_1_votes = <<"go left", "go left">>
    /\ processed_ids = {QRId(1), QRId(2)}
    /\ Len(current_centers) = 1
    /\ \E i, j \in 1..Len(active_trackers) :
         /\ active_trackers[i].id = QRId(1)
         /\ active_trackers[i].unseen >= 1
         /\ active_trackers[j].id = QRId(2)
         /\ active_trackers[j].unseen = 0

====
